---- MODULE Spec2Model ----
(***************************************************************************)
(* GitVisualizer (src/main.py): get_commits scans the text printed by      *)
(* `git log --since=.. --name-only --pretty=format:%H|%s|%P` into commit   *)
(* records, build_graph renders the records as PlantUML lines.             *)
(*                                                                         *)
(* A Python string is a sequence of one-character strings, a dict is a     *)
(* function, a list is a sequence.  An output line of build_graph is a     *)
(* record holding the pieces of the f-string it is formatted from.         *)
(***************************************************************************)
EXTENDS Integers, Sequences, FiniteSets, TLC

VARIABLES stdout, pc, commits, graph, commit_defs, file_defs

vars == <<stdout, pc, commits, graph, commit_defs, file_defs>>

\* Longest log text, in lines, that Init enumerates.
MaxLines == 4

-----------------------------------------------------------------------------
(* Python string primitives used by get_commits.                           *)

IsSpace(c) == c \in {" ", "\n", "\t"}

RECURSIVE lstrip(_)
lstrip(s) == IF s # <<>> /\ IsSpace(Head(s)) THEN lstrip(Tail(s)) ELSE s

RECURSIVE rstrip(_)
rstrip(s) ==
  IF s # <<>> /\ IsSpace(s[Len(s)]) THEN rstrip(SubSeq(s, 1, Len(s) - 1)) ELSE s

\* str.strip()
strip(s) == rstrip(lstrip(s))

\* c in s
Contains(s, c) == \E i \in 1..Len(s) : s[i] = c

\* s.find(c) + 1: the first position of c in s, 0 when there is none
Find(s, c) ==
  IF Contains(s, c)
  THEN CHOOSE i \in 1..Len(s) : s[i] = c /\ \A j \in 1..(i - 1) : s[j] # c
  ELSE 0

\* s.split(sep, maxsplit); maxsplit = -1 puts no limit on the splits
RECURSIVE split(_, _, _)
split(s, sep, maxsplit) ==
  LET i == Find(s, sep)
  IN  IF i = 0 \/ maxsplit = 0
      THEN <<s>>
      ELSE <<SubSeq(s, 1, i - 1)>> \o split(SubSeq(s, i + 1, Len(s)), sep, maxsplit - 1)

\* s.split(): the maximal runs of non-whitespace characters
RECURSIVE split_ws(_)
split_ws(s) ==
  LET t == lstrip(s)
      n == IF \E i \in 1..Len(t) : IsSpace(t[i])
           THEN CHOOSE i \in 1..Len(t) :
                  IsSpace(t[i]) /\ \A j \in 1..(i - 1) : ~IsSpace(t[j])
           ELSE Len(t) + 1
  IN  IF t = <<>> THEN <<>>
      ELSE <<SubSeq(t, 1, n - 1)>> \o split_ws(SubSeq(t, n, Len(t)))

\* sep.join(parts)
RECURSIVE join(_, _)
join(sep, parts) ==
  IF parts = <<>> THEN <<>>
  ELSE IF Len(parts) = 1 THEN parts[1]
  ELSE parts[1] \o sep \o join(sep, Tail(parts))

-----------------------------------------------------------------------------
(* get_commits, lines 44-68.                                               *)

\* current_commit is None or one record: a sequence of length 0 or 1
None == <<>>

\* `if line == '': continue`
\* (faulty variant: empty lines are not skipped)
SkipLine_never(line) == FALSE
SkipLine(line) == line = <<>>

\* the fields of a header line after the bounded split
HeaderParts(line) ==
  LET parts == split(line, "|", 2)
  IN  IF Len(parts) = 3 THEN parts ELSE parts \o << <<>> >>

\* the record a header line starts
ParseHeader(line) ==
  LET parts == HeaderParts(line)
  IN  [hash    |-> parts[1],
       message |-> parts[2],
       parents |-> split_ws(strip(parts[3])),
       files   |-> <<>>]

\* the commits list once a header line has been read
\* (faulty variant: the previous record is not saved)
PushCurrent_drop(cs, cur) == cs
PushCurrent(cs, cur) == IF cur # None THEN Append(cs, cur[1]) ELSE cs

\* one iteration of `for line in result.stdout.strip().split('\n')`;
\* raised: current_commit['files'] with current_commit None is a TypeError
ScanLine(st, line) ==
  IF st.raised \/ SkipLine(line) THEN st
  ELSE IF Contains(line, "|")
  THEN [commits        |-> PushCurrent(st.commits, st.current_commit),
        current_commit |-> <<ParseHeader(line)>>,
        raised         |-> FALSE]
  ELSE IF st.current_commit = None
  THEN [st EXCEPT !.raised = TRUE]
  ELSE [st EXCEPT !.current_commit =
          << [@[1] EXCEPT !.files = Append(@, strip(line))] >>]

RECURSIVE ScanLines(_, _)
ScanLines(st, lines) ==
  IF lines = <<>> THEN st ELSE ScanLines(ScanLine(st, Head(lines)), Tail(lines))

\* the lines the loop iterates over
LogLinesOf(text) == split(strip(text), "\n", -1)

\* the list get_commits returns, or the exception it raises
Finalize(st) ==
  [raised  |-> st.raised,
   commits |-> IF st.current_commit # None
               THEN Append(st.commits, st.current_commit[1])
               ELSE st.commits]

get_commits_result(text) ==
  Finalize(ScanLines([commits |-> <<>>, current_commit |-> None, raised |-> FALSE],
                     LogLinesOf(text)))

-----------------------------------------------------------------------------
(* build_graph, lines 72-106.                                              *)

NoId == [kind |-> "", n |-> 0]
CommitNode(n) == [kind |-> "Commit", n |-> n]
FileNode(n) == [kind |-> "File", n |-> n]

\* the lines of the output
TextLine(s) == [type |-> "text", label |-> s, left |-> NoId, right |-> NoId]
Rectangle(label, id) == [type |-> "rectangle", label |-> label, left |-> id, right |-> NoId]
Touched(c, f) == [type |-> "-->", label |-> <<>>, left |-> c, right |-> f]
Derives(p, c) == [type |-> "<|--", label |-> <<>>, left |-> p, right |-> c]

\* d[k] = v
DictSet(d, k, v) == [x \in (DOMAIN d) \cup {k} |-> IF x = k THEN v ELSE d[x]]

\* reversed(commits)
\* (faulty variant: the commits are visited in the log's order)
reversed_id(s) == s
reversed(s) == [i \in 1..Len(s) |-> s[Len(s) + 1 - i]]

\* commit_id = f'Commit{idx + 1}'
\* (faulty variant: a record whose hash was seen reuses that hash's identifier)
commit_id_merged(st, idx, commit) ==
  IF commit.hash \in DOMAIN st.commit_defs
  THEN st.commit_defs[commit.hash]
  ELSE CommitNode(idx + 1)
commit_id(st, idx, commit) == CommitNode(idx + 1)

\* the body of `for file_path in commit['files']`
\* (faulty variants: no `not in file_defs` test; edge before declaration;
\* edge only for a new path)
AddFile_nodedup(st, cid, file_path) ==
  LET fid == FileNode(Cardinality(DOMAIN st.file_defs) + 1)
  IN  [st EXCEPT !.file_defs = DictSet(@, file_path, fid),
                 !.graph = @ \o <<Rectangle(file_path, fid), Touched(cid, fid)>>]
AddFile_edgefirst(st, cid, file_path) ==
  IF file_path \notin DOMAIN st.file_defs
  THEN LET fid == FileNode(Cardinality(DOMAIN st.file_defs) + 1)
       IN  [st EXCEPT !.file_defs = DictSet(@, file_path, fid),
                      !.graph = @ \o <<Touched(cid, fid), Rectangle(file_path, fid)>>]
  ELSE [st EXCEPT !.graph = Append(@, Touched(cid, st.file_defs[file_path]))]
AddFile_newonly(st, cid, file_path) ==
  IF file_path \notin DOMAIN st.file_defs
  THEN LET fid == FileNode(Cardinality(DOMAIN st.file_defs) + 1)
       IN  [st EXCEPT !.file_defs = DictSet(@, file_path, fid),
                      !.graph = @ \o <<Rectangle(file_path, fid), Touched(cid, fid)>>]
  ELSE st
AddFile(st, cid, file_path) ==
  IF file_path \notin DOMAIN st.file_defs
  THEN LET fid == FileNode(Cardinality(DOMAIN st.file_defs) + 1)
       IN  [st EXCEPT !.file_defs = DictSet(@, file_path, fid),
                      !.graph = @ \o <<Rectangle(file_path, fid), Touched(cid, fid)>>]
  ELSE [st EXCEPT !.graph = Append(@, Touched(cid, st.file_defs[file_path]))]

RECURSIVE AddFiles(_, _, _)
AddFiles(st, cid, files) ==
  IF files = <<>> THEN st
  ELSE AddFiles(AddFile(st, cid, Head(files)), cid, Tail(files))

\* the body of `for idx, commit in enumerate(reversed(commits))`
AddCommit(st, idx, commit) ==
  LET cid == commit_id(st, idx, commit)
  IN  AddFiles([st EXCEPT !.commit_defs = DictSet(@, commit.hash, cid),
                          !.graph = Append(@, Rectangle(commit.message, cid))],
               cid, commit.files)

RECURSIVE AddCommits(_, _, _)
AddCommits(st, idx, cs) ==
  IF cs = <<>> THEN st
  ELSE AddCommits(AddCommit(st, idx, Head(cs)), idx + 1, Tail(cs))

\* the body of `for parent_hash in commit['parents']`
AddParent(st, child_id, parent_hash) ==
  IF parent_hash \in DOMAIN st.commit_defs
  THEN [st EXCEPT !.graph = Append(@, Derives(st.commit_defs[parent_hash], child_id))]
  ELSE st

RECURSIVE AddParents(_, _, _)
AddParents(st, child_id, parents) ==
  IF parents = <<>> THEN st
  ELSE AddParents(AddParent(st, child_id, Head(parents)), child_id, Tail(parents))

\* the second `for commit in reversed(commits)`
RECURSIVE AddDerives(_, _)
AddDerives(st, cs) ==
  IF cs = <<>> THEN st
  ELSE AddDerives(AddParents(st, st.commit_defs[Head(cs).hash], Head(cs).parents),
                  Tail(cs))

\* graph.append('@enduml')
EndMarker(st) == [st EXCEPT !.graph = Append(@, TextLine("@enduml"))]

\* the list `graph` that build_graph joins with '\n', and its two dicts
build_graph_result(cs) ==
  LET header == <<TextLine("@startuml"),
                  TextLine("skinparam rectangle {"),
                  TextLine("   BackgroundColor #FDF6E3"),
                  TextLine("}")>>
      st0 == [graph |-> header, commit_defs |-> <<>>, file_defs |-> <<>>]
      st1 == AddCommits(st0, 0, reversed(cs))
      st2 == AddDerives(st1, reversed(cs))
  IN  EndMarker(st2)

-----------------------------------------------------------------------------
(* The log texts.                                                          *)

A == <<"a">>
B == <<"b">>
C == <<"c">>

\* '|'.join of the three fields of a header line, as --pretty=format:%H|%s|%P prints it
HeaderLine(h, m, ps) == h \o <<"|">> \o m \o <<"|">> \o join(<<" ">>, ps)

Hashes == {A, B}
Messages == {<<>>, <<"m">>, <<"m", " ", "n">>, <<"m", "|", "n">>, <<"|">>, <<"m", "|">>}
ParentLists == {<<>>, <<A>>, <<B>>, <<A, B>>, <<B, C>>}

\* the lines the multi-line texts are made of: headers, file paths, blank lines
CoreLines ==
  { HeaderLine(A, <<>>, <<>>),
    HeaderLine(A, <<>>, <<B>>),
    HeaderLine(B, <<>>, <<>>),
    HeaderLine(B, <<"m">>, <<A, C>>),
    <<"f">>,
    <<" ", "g">>,
    <<" ">>,
    <<>> }

ScenarioLines ==
  << <<"a", "1", "|", "I", "n", "i", "t", "i", "a", "l", " ",
       "c", "o", "m", "m", "i", "t", "|">>,
     <<"f", "i", "l", "e", "1", ".", "t", "x", "t">>,
     <<"a", "2", "|", "A", "d", "d", " ", "f", "e", "a", "t", "u", "r", "e", "|", "a", "1">>,
     <<"f", "i", "l", "e", "2", ".", "t", "x", "t">>,
     <<"f", "i", "l", "e", "1", ".", "t", "x", "t">> >>

ScenarioText == join(<<"\n">>, ScenarioLines)

LineSeqs == UNION { [1..n -> CoreLines] : n \in 0..MaxLines }

Texts ==
  { join(<<"\n">>, ls) : ls \in LineSeqs }
  \cup { HeaderLine(h, m, ps) : h \in Hashes, m \in Messages, ps \in ParentLists }
  \cup { ScenarioText }

-----------------------------------------------------------------------------
(* run(): get_commits, then build_graph on what it returned.               *)

Init ==
  /\ stdout \in Texts
  /\ pc = "get_commits"
  /\ commits = <<>>
  /\ graph = <<>>
  /\ commit_defs = <<>>
  /\ file_defs = <<>>

get_commits ==
  /\ pc = "get_commits"
  /\ LET r == get_commits_result(stdout)
     IN  /\ pc' = IF r.raised THEN "raised" ELSE "build_graph"
         /\ commits' = IF r.raised THEN commits ELSE r.commits
  /\ UNCHANGED <<stdout, graph, commit_defs, file_defs>>

build_graph ==
  /\ pc = "build_graph"
  /\ LET r == build_graph_result(commits)
     IN  /\ graph' = r.graph
         /\ commit_defs' = r.commit_defs
         /\ file_defs' = r.file_defs
  /\ pc' = "done"
  /\ UNCHANGED <<stdout, commits>>

Next == get_commits \/ build_graph

Spec == Init /\ [][Next]_vars

-----------------------------------------------------------------------------
(* Views of the text and of the output that the properties are stated on.  *)

Built == pc = "done"
Returned == pc \in {"build_graph", "done"}
Raised == pc = "raised"

IsCommitDecl(l) == l.type = "rectangle" /\ l.left.kind = "Commit"
IsFileDecl(l) == l.type = "rectangle" /\ l.left.kind = "File"
IsDecl(l) == l.type = "rectangle"
IsTouched(l) == l.type = "-->"
IsDerives(l) == l.type = "<|--"

CommitDecls == SelectSeq(graph, IsCommitDecl)
TouchedEdges == SelectSeq(graph, IsTouched)
DerivesEdges == SelectSeq(graph, IsDerives)

Range(s) == { s[i] : i \in 1..Len(s) }
HashesOf(cs) == { cs[i].hash : i \in 1..Len(cs) }
PathsOf(cs) == UNION { Range(cs[i].files) : i \in 1..Len(cs) }

\* the node declared for the i-th record of commits: records are declared
\* oldest-first, so the i-th record owns the (n+1-i)-th commit declaration
NodeOfRecord(i) == CommitDecls[Len(commits) + 1 - i].left
NodesOfHash(h) == { NodeOfRecord(j) : j \in { j \in 1..Len(commits) : commits[j].hash = h } }

\* the lines of a text as written, and with the whitespace at its two ends removed
RawLines(text) == split(text, "\n", -1)
StrippedLines(text) == split(strip(text), "\n", -1)

IsNonEmptyLine(l) == l # <<>>
IsHeaderLine(l) == Contains(l, "|")
NonEmpty(lines) == SelectSeq(lines, IsNonEmptyLine)
HeaderPos(ne) == { k \in 1..Len(ne) : IsHeaderLine(ne[k]) }
\* the position of the n-th header line among the non-empty lines
NthHeader(ne, n) ==
  CHOOSE k \in HeaderPos(ne) : Cardinality({ j \in HeaderPos(ne) : j <= k }) = n
\* the last line of the block of the header line at position k
BlockEnd(ne, k) ==
  IF \E j \in HeaderPos(ne) : j > k
  THEN (CHOOSE j \in HeaderPos(ne) : j > k /\ \A i \in HeaderPos(ne) : i > k => j <= i) - 1
  ELSE Len(ne)
FilesAfter(ne, k) == [i \in 1..(BlockEnd(ne, k) - k) |-> strip(ne[k + i])]
HeaderFirst(lines) == NonEmpty(lines) # <<>> /\ IsHeaderLine(NonEmpty(lines)[1])
OrphanFirst(lines) == NonEmpty(lines) # <<>> /\ ~IsHeaderLine(NonEmpty(lines)[1])

\* one record per header line, in order, with the file lines that follow it
RecordsFollow(lines) ==
  LET ne == NonEmpty(lines)
  IN  /\ Len(commits) = Cardinality(HeaderPos(ne))
      /\ \A n \in 1..Len(commits) :
           /\ commits[n].hash = split(ne[NthHeader(ne, n)], "|", -1)[1]
           /\ commits[n].files = FilesAfter(ne, NthHeader(ne, n))

-----------------------------------------------------------------------------
(* C1                                                                      *)

ScA1 == <<"a", "1">>
ScA2 == <<"a", "2">>
ScFile1 == ScenarioLines[2]
ScFile2 == ScenarioLines[4]

\* C1 as stated: for the five-line scenario text a1 gets the first commit
\* identifier and a2 the second, file1.txt the first file identifier and
\* file2.txt the second, the touched edges are a1->file1.txt, a2->file2.txt,
\* a2->file1.txt in that order, and the one derives edge goes from a1 to a2.
C1_ScenarioAsStated ==
  (Built /\ stdout = ScenarioText) =>
    /\ Len(CommitDecls) = 2
    /\ commit_defs = (ScA1 :> CommitNode(1)) @@ (ScA2 :> CommitNode(2))
    /\ file_defs = (ScFile1 :> FileNode(1)) @@ (ScFile2 :> FileNode(2))
    /\ TouchedEdges = << Touched(commit_defs[ScA1], file_defs[ScFile1]),
                         Touched(commit_defs[ScA2], file_defs[ScFile2]),
                         Touched(commit_defs[ScA2], file_defs[ScFile1]) >>
    /\ DerivesEdges = << Derives(commit_defs[ScA1], commit_defs[ScA2]) >>

\* C1 amended: the parser keeps the text's order (a1, a2) and build visits it
\* reversed, so a2 gets the first commit identifier and a1 the second,
\* file2.txt the first file identifier and file1.txt the second, the touched
\* edges are a2->file2.txt, a2->file1.txt, a1->file1.txt in that order, and
\* the one derives edge goes from a1 to a2.
C1_ScenarioAmended ==
  (Built /\ stdout = ScenarioText) =>
    /\ Len(commits) = 2 /\ commits[1].hash = ScA1 /\ commits[2].hash = ScA2
    /\ Len(CommitDecls) = 2
    /\ commit_defs = (ScA2 :> CommitNode(1)) @@ (ScA1 :> CommitNode(2))
    /\ file_defs = (ScFile2 :> FileNode(1)) @@ (ScFile1 :> FileNode(2))
    /\ Cardinality({ k \in 1..Len(graph) : IsFileDecl(graph[k]) }) = 2
    /\ TouchedEdges = << Touched(commit_defs[ScA2], file_defs[ScFile2]),
                         Touched(commit_defs[ScA2], file_defs[ScFile1]),
                         Touched(commit_defs[ScA1], file_defs[ScFile1]) >>
    /\ DerivesEdges = << Derives(commit_defs[ScA1], commit_defs[ScA2]) >>

C1_Witness == Built /\ stdout = ScenarioText /\ Len(DerivesEdges) = 1

-----------------------------------------------------------------------------
(* C2                                                                      *)

\* C2: when a file-path line stands before any header line, get_commits
\* discards it and returns: it does not raise, and the records are those of
\* the header lines that follow.
C2_OrphanLineDiscarded ==
  (pc # "get_commits" /\ OrphanFirst(RawLines(stdout))) =>
    /\ ~Raised
    /\ LET ne == NonEmpty(RawLines(stdout))
       IN  Len(commits) = Cardinality(HeaderPos(ne))

-----------------------------------------------------------------------------
(* C3                                                                      *)

\* C3: the built graph declares as many commit nodes, with pairwise distinct
\* identifiers, as there are commit records, duplicate hashes included.
C3_OneNodePerRecord ==
  Built =>
    /\ Len(CommitDecls) = Len(commits)
    /\ Cardinality({ CommitDecls[k].left : k \in 1..Len(CommitDecls) }) = Len(commits)

C3_Witness ==
  /\ Built
  /\ \E i, j \in 1..Len(commits) : i < j /\ commits[i].hash = commits[j].hash

-----------------------------------------------------------------------------
(* C4                                                                      *)

CommitsListing(p) == { i \in 1..Len(commits) : p \in Range(commits[i].files) }
Occurrences(p) ==
  UNION { { <<i, j>> : j \in { j \in 1..Len(commits[i].files) : commits[i].files[j] = p } } :
          i \in 1..Len(commits) }
FileDeclsOf(p) == { k \in 1..Len(graph) : IsFileDecl(graph[k]) /\ graph[k].label = p }
TouchedOf(id) == { k \in 1..Len(graph) : IsTouched(graph[k]) /\ graph[k].right = id }

\* C4 as stated: a path listed by N different commits has exactly one file
\* node and exactly N touched edges referencing it.
C4_TouchedPerCommit ==
  Built => \A p \in PathsOf(commits) :
    /\ Cardinality(FileDeclsOf(p)) = 1
    /\ Cardinality(TouchedOf(file_defs[p])) = Cardinality(CommitsListing(p))

\* C4 amended: a path listed by the commits has exactly one file node, and
\* the touched edges referencing it are as many as the occurrences of the
\* path in the commits' file lists (N when no commit lists the path twice).
C4_TouchedPerOccurrence ==
  Built => \A p \in PathsOf(commits) :
    /\ Cardinality(FileDeclsOf(p)) = 1
    /\ \A k \in FileDeclsOf(p) : graph[k].left = file_defs[p]
    /\ Cardinality(TouchedOf(file_defs[p])) = Cardinality(Occurrences(p))

C4_Witness ==
  /\ Built
  /\ \E p \in PathsOf(commits) :
       Cardinality(CommitsListing(p)) >= 2 /\ Cardinality(TouchedOf(file_defs[p])) >= 2

-----------------------------------------------------------------------------
(* C5                                                                      *)

\* C5: for every record and every parent hash it lists, a derives edge from
\* a node of the parent hash to the record's own node is in the graph if and
\* only if the parent hash is the hash of a record of the sequence; the
\* record's node and its touched edges are in the graph either way.
C5_DerivesIffParentPresent ==
  Built => \A i \in 1..Len(commits) :
    /\ Cardinality({ k \in 1..Len(graph) :
                       IsTouched(graph[k]) /\ graph[k].left = NodeOfRecord(i) })
         = Len(commits[i].files)
    /\ \A p \in Range(commits[i].parents) :
         (\E k \in 1..Len(graph) :
            /\ IsDerives(graph[k])
            /\ graph[k].right = NodeOfRecord(i)
            /\ graph[k].left \in NodesOfHash(p))
         <=> p \in HashesOf(commits)

-----------------------------------------------------------------------------
(* C6                                                                      *)

\* C6: parsing the header line hash|message|parents gives back exactly the
\* hash, the message and the parents list it was joined from, also when the
\* message contains '|'.
C6_HeaderRoundTrip ==
  \A h \in Hashes, m \in Messages, ps \in ParentLists :
    (pc # "get_commits" /\ stdout = HeaderLine(h, m, ps)) =>
      /\ ~Raised
      /\ commits = << [hash |-> h, message |-> m, parents |-> ps, files |-> <<>>] >>

-----------------------------------------------------------------------------
(* C7                                                                      *)

\* C7: the output starts with @startuml and ends with @enduml; for the empty
\* text get_commits returns no record without raising, and the graph built
\* from it holds no node declaration and no edge.
C7_MarkersAndEmptyInput ==
  /\ Built =>
       /\ Len(graph) >= 2
       /\ graph[1] = TextLine("@startuml")
       /\ graph[Len(graph)] = TextLine("@enduml")
  /\ (stdout = <<>> /\ pc # "get_commits") =>
       /\ ~Raised
       /\ commits = <<>>
       /\ Built => \A k \in 1..Len(graph) : graph[k].type = "text"

C7_Witness == Built /\ stdout = <<>>

-----------------------------------------------------------------------------
(* C8                                                                      *)

DeclsOfId(id) == { k \in 1..Len(graph) : IsDecl(graph[k]) /\ graph[k].left = id }

-----------------------------------------------------------------------------
(* C9                                                                      *)

\* C9 as stated: when the first non-empty line of the text is a header line,
\* get_commits returns one record per header line, in the text's order, each
\* with the trimmed file-path lines between its header and the next.
C9_RecordsFollowRawLines ==
  (pc # "get_commits" /\ HeaderFirst(RawLines(stdout))) =>
    ~Raised /\ RecordsFollow(RawLines(stdout))

\* C9 amended: the same, with the lines taken from the text after the
\* whitespace at its two ends is removed: a whitespace-only line at the end
\* of the text is no file-path line, while one between other lines is one
\* and adds an empty path.
C9_RecordsFollowStrippedLines ==
  (pc # "get_commits" /\ HeaderFirst(StrippedLines(stdout))) =>
    ~Raised /\ RecordsFollow(StrippedLines(stdout))

C9_Witness ==
  /\ pc = "build_graph"
  /\ stdout # strip(stdout)
  /\ Len(commits) >= 2
  /\ commits[1].files # <<>>
  /\ commits[Len(commits)].files = <<>>
  /\ commits[1].hash = commits[2].hash

-----------------------------------------------------------------------------
(* C10                                                                     *)

\* C10: a touched edge comes after the declarations of its commit node and
\* of its file node; a derives edge comes after every node declaration and
\* every touched edge, and both its ends are declared commit nodes.
C10_EdgesAfterDeclarations ==
  Built => \A k \in 1..Len(graph) :
    /\ IsTouched(graph[k]) =>
         /\ \E i \in 1..(k - 1) : IsCommitDecl(graph[i]) /\ graph[i].left = graph[k].left
         /\ \E j \in 1..(k - 1) : IsFileDecl(graph[j]) /\ graph[j].left = graph[k].right
    /\ IsDerives(graph[k]) =>
         /\ \A j \in 1..Len(graph) : (IsDecl(graph[j]) \/ IsTouched(graph[j])) => j < k
         /\ \E i \in 1..Len(graph) : IsCommitDecl(graph[i]) /\ graph[i].left = graph[k].left
         /\ \E i \in 1..Len(graph) : IsCommitDecl(graph[i]) /\ graph[i].left = graph[k].right

C10_Witness == Built /\ TouchedEdges # <<>> /\ DerivesEdges # <<>>

====
